---- MODULE Spec2Model ----
(***************************************************************************)
(* Structural editing of syntax trees with SyntaxEditor                    *)
(* (crates/syntax/src/syntax_editor/edits.rs) and the mapping bookkeeping  *)
(* of the SyntaxFactory constructors                                       *)
(* (crates/syntax/src/ast/syntax_factory/constructors.rs).                 *)
(*                                                                         *)
(* A syntax element is a record [id, kind, text, kids]: id is the          *)
(* element's identity, text the characters of a whitespace token, kids the *)
(* ordered children of a node.  Elements of the tree under edit carry      *)
(* positive ids; elements made during staging carry negative ids.          *)
(***************************************************************************)
EXTENDS Integers, Sequences, FiniteSets, TLC

VARIABLES
    root,       \* the tree the editor was created for (never mutated)
    changes,    \* SyntaxEditor.changes: the staged operations, in order
    calls,      \* the recipe calls made so far (ids of their subjects)
    pc,         \* "idle" | "staged" | "applied" | "fatal"
    edit,       \* the tree returned by finish()
    recording,  \* whether the SyntaxFactory has a mapping store
    mappings,   \* the mapping store: sequence of [input, output] pairs
    last,       \* the last constructor call: its inputs, output, pairs
    nextId      \* identity given to the next freshly built fragment

vars == <<root, changes, calls, pc, edit, recording, mappings, last, nextId>>

\* ------------------------------------------------------------------ bounds
MaxParams == 2
MaxWsLen == 2
MaxRemovals == 2
MaxTrees == 3
MaxInputs == 2
MaxCalls == 2

\* ---------------------------------------------------------------- elements
NL == "\n"
SP == " "

Token(id, kind) == [id |-> id, kind |-> kind, text |-> <<>>, kids |-> <<>>]
Whitespace(id, text) == [id |-> id, kind |-> "WHITESPACE", text |-> text, kids |-> <<>>]
Node(id, kind, kids) == [id |-> id, kind |-> kind, text |-> <<>>, kids |-> kids]

NoElem == [id |-> 0, kind |-> "NONE", text |-> <<>>, kids |-> <<>>]

Ids(s) == {s[i].id : i \in 1..Len(s)}
Kinds(s) == [i \in 1..Len(s) |-> s[i].kind]

IndexOfId(s, id) ==
    IF \E i \in 1..Len(s) : s[i].id = id
    THEN CHOOSE i \in 1..Len(s) : s[i].id = id
    ELSE 0

\* first index of an element of one of the kinds, 0 when there is none
FirstOfKind(s, kinds) ==
    IF \E i \in 1..Len(s) : s[i].kind \in kinds
    THEN CHOOSE i \in 1..Len(s) :
            /\ s[i].kind \in kinds
            /\ \A j \in 1..(i-1) : s[j].kind \notin kinds
    ELSE 0

LastOfKind(s, kinds) ==
    IF \E i \in 1..Len(s) : s[i].kind \in kinds
    THEN CHOOSE i \in 1..Len(s) :
            /\ s[i].kind \in kinds
            /\ \A j \in (i+1)..Len(s) : s[j].kind \notin kinds
    ELSE 0

ElemAt(s, i) == IF i \in 1..Len(s) THEN s[i] ELSE NoElem

\* ids are given by position: base + index
WithIds(kinds, base) ==
    [i \in 1..Len(kinds) |->
        IF kinds[i] = "WHITESPACE" THEN Whitespace(base + i, <<SP>>)
        ELSE Token(base + i, kinds[i])]

\* ------------------------------------------------- positions and operations
After(id) == [at |-> "after", target |-> id]
Before(id) == [at |-> "before", target |-> id]
LastChildOf(id) == [at |-> "last_child_of", target |-> id]
NoPos == [at |-> "none", target |-> 0]

Insert(position, element) ==
    [op |-> "insert", pos |-> position, target |-> 0, elems |-> <<element>>]
InsertAll(position, elements) ==
    [op |-> "insert_all", pos |-> position, target |-> 0, elems |-> elements]
Delete(id) ==
    [op |-> "delete", pos |-> NoPos, target |-> id, elems |-> <<>>]
Replace(id, element) ==
    [op |-> "replace", pos |-> NoPos, target |-> id, elems |-> <<element>>]

IsInsert(ch) == ch.op \in {"insert", "insert_all"}
Anchor(ch) == IF IsInsert(ch) THEN ch.pos.target ELSE ch.target

\* ------------------------------------------------------- applying the batch
Splice(s, i, del, ins) ==
    SubSeq(s, 1, i - 1) \o ins \o SubSeq(s, i + del, Len(s))

\* ch applied to the sibling sequence s that holds its target
EditKids(s, ch) ==
    LET i == IndexOfId(s, Anchor(ch))
    IN  CASE ch.op = "delete" -> Splice(s, i, 1, <<>>)
          [] ch.op = "replace" -> Splice(s, i, 1, ch.elems)
          [] IsInsert(ch) /\ ch.pos.at = "before" -> Splice(s, i, 0, ch.elems)
          [] OTHER -> Splice(s, i + 1, 0, ch.elems)

Resolves(node, ch) ==
    IF IsInsert(ch) /\ ch.pos.at = "last_child_of"
    THEN \/ Anchor(ch) = node.id
         \/ Anchor(ch) \in Ids(node.kids)
    ELSE \/ Anchor(ch) \in Ids(node.kids)
         \/ \E k \in 1..Len(node.kids) : Anchor(ch) \in Ids(node.kids[k].kids)

ApplyChange(node, ch) ==
    LET ks == node.kids
        appendTo(n) == [n EXCEPT !.kids = n.kids \o ch.elems]
        editIn(n) == [n EXCEPT !.kids = EditKids(n.kids, ch)]
    IN  IF IsInsert(ch) /\ ch.pos.at = "last_child_of"
        THEN IF Anchor(ch) = node.id
             THEN appendTo(node)
             ELSE [node EXCEPT !.kids =
                      [k \in 1..Len(ks) |->
                          IF ks[k].id = Anchor(ch) THEN appendTo(ks[k]) ELSE ks[k]]]
        ELSE IF Anchor(ch) \in Ids(ks)
             THEN editIn(node)
             ELSE [node EXCEPT !.kids =
                      [k \in 1..Len(ks) |->
                          IF Anchor(ch) \in Ids(ks[k].kids)
                          THEN editIn(ks[k]) ELSE ks[k]]]

\* the staged operations applied in staging order, each resolved against the
\* tree as it stands; a target that cannot be found aborts the whole pass
RECURSIVE ApplyAll(_, _)
ApplyAll(node, chs) ==
    IF chs = <<>> THEN [ok |-> TRUE, tree |-> node]
    ELSE IF ~Resolves(node, Head(chs)) THEN [ok |-> FALSE, tree |-> node]
    ELSE ApplyAll(ApplyChange(node, Head(chs)), Tail(chs))

\* finish(): one pass over the batch
Finish ==
    /\ pc = "staged"
    /\ LET r == ApplyAll(root, changes)
       IN  IF r.ok
           THEN pc' = "applied" /\ edit' = r.tree
           ELSE pc' = "fatal" /\ edit' = root
    /\ UNCHANGED <<root, changes, calls, recording, mappings, last, nextId>>

\* ======================================================= add_generic_param
GenericParamKinds == {"TYPE_PARAM", "LIFETIME_PARAM", "CONST_PARAM"}

\* function.generic_param_list()
generic_param_list(function) ==
    ElemAt(function.kids, FirstOfKind(function.kids, {"GENERIC_PARAM_LIST"}))

\* generic_param_list.generic_params().last()
last_generic_param(list) == ElemAt(list.kids, LastOfKind(list.kids, GenericParamKinds))

r_angle_token(list) == ElemAt(list.kids, FirstOfKind(list.kids, {"R_ANGLE"}))
l_angle_token(list) == ElemAt(list.kids, FirstOfKind(list.kids, {"L_ANGLE"}))
fn_name(function) == ElemAt(function.kids, FirstOfKind(function.kids, {"NAME"}))
fn_token(function) == ElemAt(function.kids, FirstOfKind(function.kids, {"FN_KW"}))
param_list(function) == ElemAt(function.kids, FirstOfKind(function.kids, {"PARAM_LIST"}))

next_sibling_or_token(s, id) == ElemAt(s, IndexOfId(s, id) + 1)
prev_sibling_or_token(s, id) == ElemAt(s, IndexOfId(s, id) - 1)

\* make::token(kind), given the identity n
make_token(n, kind) ==
    IF kind = "WHITESPACE" THEN Whitespace(n, <<SP>>) ELSE Token(n, kind)

\* list present and non-empty: where the insert_all of the second branch goes
NonEmptyPosition(function, list) ==
    IF r_angle_token(list) = NoElem
    THEN LastChildOf(function.id)
    ELSE Before(r_angle_token(list).id)

\* a separator follows the last parameter: three inserts after it
MutTrailingCommaInserts(last_param, new_param) ==
    << Insert(After(last_param.id), make_token(-1, "COMMA")),
       Insert(After(last_param.id), make_token(-2, "WHITESPACE")),
       Insert(After(last_param.id), new_param) >>
TrailingCommaInserts(last_param, new_param) ==
    << Insert(After(last_param.id), new_param),
       Insert(After(last_param.id), make_token(-2, "WHITESPACE")),
       Insert(After(last_param.id), make_token(-1, "COMMA")) >>

\* list absent: the anchor of the synthesized list
MutListAbsentPosition(function) ==
    IF fn_token(function) # NoElem THEN After(fn_token(function).id)
    ELSE IF fn_name(function) # NoElem THEN After(fn_name(function).id)
    ELSE IF param_list(function) # NoElem THEN Before(param_list(function).id)
    ELSE LastChildOf(function.id)
ListAbsentPosition(function) ==
    IF fn_name(function) # NoElem THEN After(fn_name(function).id)
    ELSE IF fn_token(function) # NoElem THEN After(fn_token(function).id)
    ELSE IF param_list(function) # NoElem THEN Before(param_list(function).id)
    ELSE LastChildOf(function.id)

\* the operations add_generic_param(function, new_param) stages
add_generic_param(function, new_param) ==
    LET list == generic_param_list(function)
        last_param == last_generic_param(list)
    IN  IF list # NoElem
        THEN IF last_param # NoElem
             THEN IF next_sibling_or_token(list.kids, last_param.id).kind = "COMMA"
                  THEN TrailingCommaInserts(last_param, new_param)
                  ELSE << InsertAll(NonEmptyPosition(function, list),
                                    << make_token(-1, "COMMA"),
                                       make_token(-2, "WHITESPACE"),
                                       new_param >>) >>
             ELSE << Insert(After(l_angle_token(list).id), new_param) >>
        ELSE << InsertAll(ListAbsentPosition(function),
                          << make_token(-1, "L_ANGLE"),
                             new_param,
                             make_token(-2, "R_ANGLE") >>) >>

NewParam(kind) == Node(-9, kind, <<>>)

AddGenericParam ==
    /\ pc = "idle"
    /\ \E k \in {"TYPE_PARAM", "LIFETIME_PARAM"} :
          /\ changes' = changes \o add_generic_param(root, NewParam(k))
          /\ calls' = Append(calls, -9)
    /\ pc' = "staged"
    /\ UNCHANGED <<root, edit, recording, mappings, last, nextId>>

\* ------------------------------------------------ the functions being edited
RECURSIVE ParamRun(_)
ParamRun(n) ==
    IF n = 0 THEN <<>>
    ELSE IF n = 1 THEN <<"TYPE_PARAM">>
    ELSE ParamRun(n - 1) \o <<"COMMA", "WHITESPACE", "TYPE_PARAM">>

ListTails(n) ==
    IF n = 0 THEN {<<>>, <<"WHITESPACE">>}
    ELSE {<<>>, <<"WHITESPACE">>, <<"COMMA">>, <<"COMMA", "WHITESPACE">>}

\* the generic-parameter lists the parser produces (a missing closing bracket
\* is the parser's error recovery)
GenericParamLists ==
    { Node(9, "GENERIC_PARAM_LIST",
           WithIds(<<"L_ANGLE">> \o ParamRun(n) \o tail \o close, 20)) :
        <<n, tail, close>> \in
            { t \in (0..MaxParams) \X ListTails(MaxParams) \X {<<>>, <<"R_ANGLE">>} :
                t[2] \in ListTails(t[1]) } }

SetIds(s, base) ==
    [i \in 1..Len(s) |-> IF s[i].kind = "GENERIC_PARAM_LIST" THEN s[i]
                         ELSE [s[i] EXCEPT !.id = base + i]]

Functions ==
    { Node(10, "FN",
           SetIds(kw \o nm \o gl \o pl \o body, 0)) :
        <<kw, nm, gl, pl, body>> \in
            {<<>>, WithIds(<<"FN_KW", "WHITESPACE">>, 0)}
            \X {<<>>, WithIds(<<"NAME">>, 0)}
            \X ({<<>>} \cup {<<g>> : g \in GenericParamLists})
            \X {<<>>, WithIds(<<"PARAM_LIST">>, 0)}
            \X {<<>>, WithIds(<<"WHITESPACE", "BLOCK_EXPR">>, 0)} }

NoCall == [ctor |-> "none", inputs |-> <<>>, out |-> NoElem, recorded |-> <<>>]

InitGen ==
    /\ root \in Functions
    /\ changes = <<>>
    /\ calls = <<>>
    /\ pc = "idle"
    /\ edit = root
    /\ recording = FALSE
    /\ mappings = <<>>
    /\ last = NoCall
    /\ nextId = 1

NextGen == AddGenericParam \/ Finish

SpecGen == InitGen /\ [][NextGen]_vars

\* ---------------------------------------------- add_generic_param: claims
G0 == generic_param_list(root)
G1 == generic_param_list(edit)
LastParam0 == last_generic_param(G0)
LastIdx0 == IndexOfId(G0.kids, LastParam0.id)
NewParamId == calls[1]

ListNonEmpty == G0 # NoElem /\ LastParam0 # NoElem
HasTrailingComma ==
    ListNonEmpty /\ next_sibling_or_token(G0.kids, LastParam0.id).kind = "COMMA"
NoSeparatorCase ==
    ListNonEmpty /\ next_sibling_or_token(G0.kids, LastParam0.id).kind # "COMMA"
ListAbsent == G0 = NoElem

\* a function the parser accepted without error recovery
WellFormed ==
    /\ fn_token(root) # NoElem
    /\ fn_name(root) # NoElem
    /\ param_list(root) # NoElem
    /\ G0 # NoElem => r_angle_token(G0) # NoElem

\* a fresh comma, one space and the new parameter sit at slots i+1..i+3 of s
CommaSpaceParamAt(s, i) ==
    /\ ElemAt(s, i + 1).kind = "COMMA"
    /\ ElemAt(s, i + 1).id \notin Ids(G0.kids)
    /\ ElemAt(s, i + 2).kind = "WHITESPACE"
    /\ ElemAt(s, i + 2).text = <<SP>>
    /\ ElemAt(s, i + 2).id \notin Ids(G0.kids)
    /\ ElemAt(s, i + 3).id = NewParamId
    /\ ElemAt(s, i + 3).kind \in GenericParamKinds

\* everything of the function outside its generic-parameter list is untouched
OutsideListUnchanged ==
    /\ Len(edit.kids) = Len(root.kids)
    /\ \A k \in 1..Len(root.kids) :
          root.kids[k].kind # "GENERIC_PARAM_LIST" => edit.kids[k] = root.kids[k]

\* C1 (as amended): with a separator directly after the last parameter, the
\* applied batch leaves the list as: everything up to the last parameter, a
\* new comma, one space, the new parameter, then the original trailing comma
\* and whatever followed it, unchanged (`<A,>` becomes `<A, B,>`).
C1_TrailingCommaKept ==
    (pc = "applied" /\ HasTrailingComma) =>
        /\ Len(G1.kids) = Len(G0.kids) + 3
        /\ SubSeq(G1.kids, 1, LastIdx0) = SubSeq(G0.kids, 1, LastIdx0)
        /\ CommaSpaceParamAt(G1.kids, LastIdx0)
        /\ SubSeq(G1.kids, LastIdx0 + 4, Len(G1.kids))
              = SubSeq(G0.kids, LastIdx0 + 1, Len(G0.kids))
        /\ G1.kids[LastIdx0 + 4].kind = "COMMA"
        /\ OutsideListUnchanged

C1_Witness ==
    /\ pc = "applied"
    /\ HasTrailingComma
    /\ NewParamId \in Ids(G1.kids)
    /\ Len(changes) = 3

\* C1 as stated (on a function parsed without error): moreover the original
\* trailing comma is the last element before the closing bracket.
C1_Original ==
    (pc = "applied" /\ HasTrailingComma /\ WellFormed) =>
        /\ CommaSpaceParamAt(G1.kids, LastIdx0)
        /\ ElemAt(G1.kids, LastIdx0 + 4) = G0.kids[LastIdx0 + 1]
        /\ prev_sibling_or_token(G1.kids, r_angle_token(G1).id) = G0.kids[LastIdx0 + 1]

\* C2 as stated (on a function parsed without error): with no separator after
\* the last parameter, a comma, a space and the new parameter follow the last
\* parameter immediately, whatever follows it inside the list.
C2_ImmediatelyAfterLast ==
    (pc = "applied" /\ NoSeparatorCase /\ WellFormed) =>
        /\ G1 # NoElem
        /\ SubSeq(G1.kids, 1, LastIdx0) = SubSeq(G0.kids, 1, LastIdx0)
        /\ CommaSpaceParamAt(G1.kids, LastIdx0)

C2_Witness ==
    /\ pc = "applied"
    /\ NoSeparatorCase
    /\ CommaSpaceParamAt(G1.kids, LastIdx0)

\* C3 as stated (on a function parsed without error): after the batch is
\* applied the function has exactly one generic-parameter list among its
\* children and the new parameter is the last parameter inside it.
C3_OneListNewParamLast ==
    (pc = "applied" /\ WellFormed) =>
        /\ Cardinality({k \in 1..Len(edit.kids) :
                           edit.kids[k].kind = "GENERIC_PARAM_LIST"}) = 1
        /\ last_generic_param(G1).id = NewParamId

C3_Witness ==
    /\ pc = "applied"
    /\ G0 # NoElem
    /\ LastParam0 = NoElem
    /\ last_generic_param(G1).id = NewParamId

\* the anchor the priority rule names: after the name, else after the fn
\* keyword, else before the parameter list, else last child of the function
PriorityAnchor ==
    CASE \E k \in 1..Len(root.kids) : root.kids[k].kind = "NAME" ->
            [at |-> "after",
             target |-> root.kids[FirstOfKind(root.kids, {"NAME"})].id]
      [] /\ \A k \in 1..Len(root.kids) : root.kids[k].kind # "NAME"
         /\ \E k \in 1..Len(root.kids) : root.kids[k].kind = "FN_KW" ->
            [at |-> "after",
             target |-> root.kids[FirstOfKind(root.kids, {"FN_KW"})].id]
      [] /\ \A k \in 1..Len(root.kids) : root.kids[k].kind \notin {"NAME", "FN_KW"}
         /\ \E k \in 1..Len(root.kids) : root.kids[k].kind = "PARAM_LIST" ->
            [at |-> "before",
             target |-> root.kids[FirstOfKind(root.kids, {"PARAM_LIST"})].id]
      [] OTHER -> [at |-> "last_child_of", target |-> root.id]

\* slot (number of children before it) the anchor denotes in the function
PrioritySlot ==
    CASE PriorityAnchor.at = "after" -> IndexOfId(root.kids, PriorityAnchor.target)
      [] PriorityAnchor.at = "before" -> IndexOfId(root.kids, PriorityAnchor.target) - 1
      [] OTHER -> Len(root.kids)

\* C4: with no generic-parameter list, exactly one insert_all of
\* (`<`, new_param, `>`) is staged, at the first available anchor in the
\* priority name / fn keyword / parameter list / last child; applied, the
\* triple stands contiguous and in order at that slot (`foo() {}` becomes
\* `foo<T>() {}`).
C4_ListAbsentTriple ==
    (pc \in {"staged", "applied"} /\ ListAbsent) =>
        /\ Len(changes) = 1
        /\ changes[1].op = "insert_all"
        /\ changes[1].pos = PriorityAnchor
        /\ Len(changes[1].elems) = 3
        /\ changes[1].elems[1].kind = "L_ANGLE"
        /\ changes[1].elems[2].id = NewParamId
        /\ changes[1].elems[3].kind = "R_ANGLE"
        /\ pc = "applied" =>
              /\ edit.kids = SubSeq(root.kids, 1, PrioritySlot)
                                \o changes[1].elems
                                \o SubSeq(root.kids, PrioritySlot + 1, Len(root.kids))
              /\ Kinds(root.kids) = <<"FN_KW", "WHITESPACE", "NAME", "PARAM_LIST",
                                      "WHITESPACE", "BLOCK_EXPR">>
                   => Kinds(edit.kids) = <<"FN_KW", "WHITESPACE", "NAME", "L_ANGLE",
                                           changes[1].elems[2].kind, "R_ANGLE",
                                           "PARAM_LIST", "WHITESPACE", "BLOCK_EXPR">>

C4_Witness ==
    /\ pc = "applied"
    /\ ListAbsent
    /\ Kinds(root.kids) = <<"FN_KW", "WHITESPACE", "NAME", "PARAM_LIST",
                            "WHITESPACE", "BLOCK_EXPR">>
    /\ Kinds(edit.kids)[4] = "L_ANGLE"

\* ============================================ Removable for ast::Use
\* ws_text.strip_prefix('\n'): the rest after a leading line break, if any
Mut_strip_prefix_nl(text) ==
    IF \E k \in 1..Len(text) : text[k] = NL
    THEN [some |-> TRUE,
          rest |-> SubSeq(text,
                          1 + CHOOSE k \in 1..Len(text) :
                                 /\ text[k] = NL
                                 /\ \A j \in 1..(k-1) : text[j] # NL,
                          Len(text))]
    ELSE [some |-> FALSE, rest |-> <<>>]
strip_prefix_nl(text) ==
    IF text # <<>> /\ Head(text) = NL
    THEN [some |-> TRUE, rest |-> Tail(text)]
    ELSE [some |-> FALSE, rest |-> <<>>]

\* ws_text.rfind('\n').map(|x| x + 1).unwrap_or(0): the number of characters
\* up to and including the last line break
Mut_prev_newline(text) ==
    IF \E k \in 1..Len(text) : text[k] = NL
    THEN CHOOSE k \in 1..Len(text) :
            /\ text[k] = NL
            /\ \A j \in 1..(k-1) : text[j] # NL
    ELSE 0
prev_newline(text) ==
    IF \E k \in 1..Len(text) : text[k] = NL
    THEN CHOOSE k \in 1..Len(text) :
            /\ text[k] = NL
            /\ \A j \in (k+1)..Len(text) : text[j] # NL
    ELSE 0

\* the whitespace token next to / before the declaration, NoElem otherwise
\* (.and_then(|it| it.into_token()).and_then(ast::Whitespace::cast))
as_whitespace(e) == IF e.kind = "WHITESPACE" THEN e ELSE NoElem

\* operations staged for the following sibling; n numbers the token made
use_remove_next(siblings, self, n) ==
    LET next_ws == as_whitespace(next_sibling_or_token(siblings, self))
        stripped == strip_prefix_nl(next_ws.text)
    IN  IF next_ws # NoElem /\ stripped.some
        THEN IF stripped.rest = <<>>
             THEN << Delete(next_ws.id) >>
             ELSE << Replace(next_ws.id, Whitespace(n, stripped.rest)) >>
        ELSE <<>>

\* operations staged for the preceding sibling
use_remove_prev(siblings, self, n) ==
    LET prev_ws == as_whitespace(prev_sibling_or_token(siblings, self))
        rest == SubSeq(prev_ws.text, 1, prev_newline(prev_ws.text))
    IN  IF prev_ws # NoElem
        THEN IF rest = <<>>
             THEN << Delete(prev_ws.id) >>
             ELSE << Replace(prev_ws.id, Whitespace(n, rest)) >>
        ELSE <<>>

\* <ast::Use as Removable>::remove: everything one call stages, in order
use_remove(siblings, self, n) ==
    use_remove_next(siblings, self, n - 1)
        \o use_remove_prev(siblings, self, n - 2)
        \o << Delete(self) >>

UseRemove ==
    /\ pc \in {"idle", "staged"}
    /\ Len(calls) < MaxRemovals
    /\ \E i \in 1..Len(root.kids) :
          /\ root.kids[i].kind = "USE"
          /\ \A c \in 1..Len(calls) : calls[c] # root.kids[i].id
          /\ changes' = changes \o use_remove(root.kids, root.kids[i].id,
                                              0 - 2 * Len(calls))
          /\ calls' = Append(calls, root.kids[i].id)
    /\ pc' = "staged"
    /\ UNCHANGED <<root, edit, recording, mappings, last, nextId>>

\* ------------------------------------------------- the files being edited
RECURSIVE SeqsUpTo(_, _)
SeqsUpTo(S, n) ==
    IF n = 0 THEN {<<>>}
    ELSE SeqsUpTo(S, n - 1)
            \cup {Append(t, x) : t \in {u \in SeqsUpTo(S, n - 1) : Len(u) = n - 1},
                                 x \in S}

\* whitespace tokens hold one to MaxWsLen line breaks and spaces
WsTexts == SeqsUpTo({NL, SP}, MaxWsLen) \ {<<>>}

\* a use declaration with, on each side, an optional whitespace token and an
\* optional neighbouring item (another use declaration or a function)
Renumber(s) == [k \in 1..Len(s) |-> [s[k] EXCEPT !.id = k]]

SourceFiles ==
    { Node(10, "SOURCE_FILE",
           Renumber(pi \o pw \o << Node(0, "USE", <<>>) >> \o nw \o ni)) :
        <<pi, pw, nw, ni>> \in
            {<<>>, << Node(0, "USE", <<>>) >>, << Node(0, "FN", <<>>) >>}
            \X ({<<>>} \cup {<< Whitespace(0, t) >> : t \in WsTexts})
            \X ({<<>>} \cup {<< Whitespace(0, t) >> : t \in WsTexts})
            \X {<<>>, << Node(0, "USE", <<>>) >>, << Node(0, "FN", <<>>) >>} }

InitUse ==
    /\ root \in SourceFiles
    /\ changes = <<>>
    /\ calls = <<>>
    /\ pc = "idle"
    /\ edit = root
    /\ recording = FALSE
    /\ mappings = <<>>
    /\ last = NoCall
    /\ nextId = 1

NextUse == UseRemove \/ Finish

SpecUse == InitUse /\ [][NextUse]_vars

\* ------------------------------------------------ Use::remove: claims
Removed == calls[1]
RemovedIdx == IndexOfId(root.kids, Removed)
NextSib == ElemAt(root.kids, RemovedIdx + 1)
PrevSib == ElemAt(root.kids, RemovedIdx - 1)
NextWsText == IF NextSib.kind = "WHITESPACE" THEN NextSib.text ELSE <<>>
PrevWsText == IF PrevSib.kind = "WHITESPACE" THEN PrevSib.text ELSE <<>>
OneUseRemoved == root.kind = "SOURCE_FILE" /\ Len(calls) = 1

RECURSIVE NLCount(_)
NLCount(text) ==
    IF text = <<>> THEN 0
    ELSE (IF Head(text) = NL THEN 1 ELSE 0) + NLCount(Tail(text))

FirstNL(text) ==
    CHOOSE k \in 1..Len(text) : text[k] = NL /\ \A j \in 1..(k-1) : text[j] # NL
LastNL(text) ==
    CHOOSE k \in 1..Len(text) : text[k] = NL /\ \A j \in (k+1)..Len(text) : text[j] # NL

\* the staged operations that target the element id
OpsOn(id) == SelectSeq(changes, LAMBDA ch : ~IsInsert(ch) /\ ch.target = id)

\* the elements that followed the next sibling, and the element of the
\* edited tree that stands right before them
AfterNext == SubSeq(root.kids, RemovedIdx + 2, Len(root.kids))
SlotBeforeAfterNext == ElemAt(edit.kids, Len(edit.kids) - Len(AfterNext))

\* C5 (as amended): when a use declaration is removed and its following
\* sibling is a whitespace token, the token loses its leading line break if
\* it begins with one (and is deleted when nothing is left); a token that
\* does not begin with a line break is left as it is.
C5_NextWsLeadingBreak ==
    (OneUseRemoved /\ pc \in {"staged", "applied"} /\ NextSib.kind = "WHITESPACE") =>
        /\ (Head(NextSib.text) = NL /\ Len(NextSib.text) = 1) =>
              /\ OpsOn(NextSib.id) = << Delete(NextSib.id) >>
              /\ pc = "applied" =>
                    /\ NextSib.id \notin Ids(edit.kids)
                    /\ Len(edit.kids) <= Len(root.kids) - 2
        /\ (Head(NextSib.text) = NL /\ Len(NextSib.text) > 1) =>
              /\ Len(OpsOn(NextSib.id)) = 1
              /\ OpsOn(NextSib.id)[1].op = "replace"
              /\ pc = "applied" =>
                    /\ NextSib.id \notin Ids(edit.kids)
                    /\ SlotBeforeAfterNext.kind = "WHITESPACE"
                    /\ SlotBeforeAfterNext.text = Tail(NextSib.text)
        /\ Head(NextSib.text) # NL =>
              /\ OpsOn(NextSib.id) = <<>>
              /\ pc = "applied" => SlotBeforeAfterNext = NextSib
        /\ pc = "applied" =>
              SubSeq(edit.kids, Len(edit.kids) - Len(AfterNext) + 1, Len(edit.kids))
                 = AfterNext

C5_Witness ==
    /\ OneUseRemoved
    /\ pc = "applied"
    /\ NextSib.kind = "WHITESPACE"
    /\ NextSib.text = <<SP, NL>>
    /\ SlotBeforeAfterNext = NextSib

\* C5 as stated: the following whitespace token is cut after its first line
\* break wherever that line break occurs, and deleted if nothing is left.
C5_Original ==
    (OneUseRemoved /\ pc = "applied" /\ NextSib.kind = "WHITESPACE"
       /\ NLCount(NextSib.text) > 0) =>
        LET kept == SubSeq(NextSib.text, FirstNL(NextSib.text) + 1, Len(NextSib.text))
        IN  /\ NextSib.id \notin Ids(edit.kids)
            /\ kept # <<>> =>
                  /\ SlotBeforeAfterNext.kind = "WHITESPACE"
                  /\ SlotBeforeAfterNext.text = kept

\* the whitespace left between the former previous and next non-whitespace
\* siblings of the removed declaration
PrevItemId ==
    IF PrevSib.kind = "WHITESPACE" THEN ElemAt(root.kids, RemovedIdx - 2).id
    ELSE PrevSib.id
NextItemId ==
    IF NextSib.kind = "WHITESPACE" THEN ElemAt(root.kids, RemovedIdx + 2).id
    ELSE NextSib.id

RECURSIVE Concat(_)
Concat(ts) == IF ts = <<>> THEN <<>> ELSE Head(ts).text \o Concat(Tail(ts))

GapText ==
    LET lo == IndexOfId(edit.kids, PrevItemId)
        hi == IF NextItemId = 0 THEN Len(edit.kids) + 1
              ELSE IndexOfId(edit.kids, NextItemId)
    IN  Concat(SubSeq(edit.kids, lo + 1, hi - 1))

\* a blank line: two line breaks with nothing but spaces between them
BlankLine(text) ==
    \E a, b \in 1..Len(text) :
        /\ a < b
        /\ text[a] = NL
        /\ text[b] = NL
        /\ \A j \in (a+1)..(b-1) : text[j] = SP

KeptOfPrev == IF NLCount(PrevWsText) = 0 THEN <<>>
              ELSE SubSeq(PrevWsText, 1, LastNL(PrevWsText))
KeptOfNext == IF NextWsText # <<>> /\ Head(NextWsText) = NL THEN Tail(NextWsText)
              ELSE NextWsText

\* C6 (as amended): removing a use declaration deletes its node, cuts the
\* preceding whitespace after its last line break and drops one leading line
\* break of the following whitespace; the whitespace left between the former
\* neighbours is exactly those two remainders, so it contains no blank line
\* whenever the remainders together hold at most one line break (as in
\* `use a;\nuse b;\n`, which becomes `use b;\n`).
C6_GapAfterRemoval ==
    (OneUseRemoved /\ pc = "applied") =>
        /\ Removed \notin Ids(edit.kids)
        /\ GapText = KeptOfPrev \o KeptOfNext
        /\ NLCount(KeptOfPrev) + NLCount(KeptOfNext) <= 1 => ~BlankLine(GapText)
        /\ (/\ Kinds(root.kids) = <<"USE", "WHITESPACE", "USE", "WHITESPACE">>
            /\ root.kids[2].text = <<NL>>
            /\ root.kids[4].text = <<NL>>
            /\ Removed = root.kids[1].id) => edit.kids = << root.kids[3], root.kids[4] >>

C6_Witness ==
    /\ OneUseRemoved
    /\ pc = "applied"
    /\ PrevWsText = <<NL, SP>>
    /\ NextWsText = <<NL>>
    /\ GapText = <<NL>>

\* C6 as stated (for a declaration standing between two other items): for
\* every content of the preceding and following whitespace, no blank line
\* remains where the declaration stood.
C6_Original ==
    (OneUseRemoved /\ pc = "applied" /\ PrevItemId # 0 /\ NextItemId # 0) =>
        /\ Removed \notin Ids(edit.kids)
        /\ ~BlankLine(GapText)

\* C10 as stated: no node or token is the target of more than one staged
\* delete or replace operation.
C10_NoTargetTwice ==
    \A a, b \in 1..Len(changes) :
        (/\ a # b
         /\ ~IsInsert(changes[a])
         /\ ~IsInsert(changes[b])) => changes[a].target # changes[b].target

C10_Witness ==
    /\ root.kind = "SOURCE_FILE"
    /\ Len(calls) = 2
    /\ pc = "fatal"

\* ============================================ Removable for ast::UseTree
\* for dir in [Direction::Next, Direction::Prev]
MutRemovalDirections == <<"Prev", "Next">>
RemovalDirections == <<"Next", "Prev">>

\* algo::neighbor(self, dir): index of the nearest use tree in the direction,
\* 0 when there is none
neighbor(siblings, self, dir) ==
    LET i == IndexOfId(siblings, self)
        cand == IF dir = "Next"
                THEN {j \in (i+1)..Len(siblings) : siblings[j].kind = "USE_TREE"}
                ELSE {j \in 1..(i-1) : siblings[j].kind = "USE_TREE"}
    IN  IF cand = {} THEN 0
        ELSE IF dir = "Next"
             THEN CHOOSE j \in cand : \A k \in cand : j <= k
             ELSE CHOOSE j \in cand : \A k \in cand : j >= k

\* siblings_with_tokens(dir).skip(1).take_while(..): one delete for each
\* element met walking from self towards the neighbour at index nb
separators(siblings, self, dir, nb) ==
    LET i == IndexOfId(siblings, self)
    IN  IF dir = "Next"
        THEN [k \in 1..(nb - i - 1) |-> Delete(siblings[i + k].id)]
        ELSE [k \in 1..(i - nb - 1) |-> Delete(siblings[i - k].id)]

\* the loop over the directions, from the d-th direction on: the first
\* direction with a neighbour decides, then break
RECURSIVE try_directions(_, _, _)
try_directions(siblings, self, d) ==
    IF d > Len(RemovalDirections) THEN <<>>
    ELSE IF neighbor(siblings, self, RemovalDirections[d]) # 0
         THEN separators(siblings, self, RemovalDirections[d],
                         neighbor(siblings, self, RemovalDirections[d]))
         ELSE try_directions(siblings, self, d + 1)

\* <ast::UseTree as Removable>::remove
use_tree_remove(siblings, self) ==
    try_directions(siblings, self, 1) \o << Delete(self) >>

UseTreeRemove ==
    /\ pc \in {"idle", "staged"}
    /\ Len(calls) < MaxRemovals
    /\ \E i \in 1..Len(root.kids) :
          /\ root.kids[i].kind = "USE_TREE"
          /\ \A c \in 1..Len(calls) : calls[c] # root.kids[i].id
          /\ changes' = changes \o use_tree_remove(root.kids, root.kids[i].id)
          /\ calls' = Append(calls, root.kids[i].id)
    /\ pc' = "staged"
    /\ UNCHANGED <<root, edit, recording, mappings, last, nextId>>

\* ------------------------------------------ the grouped imports being edited
ClauseSeparators ==
    { <<"COMMA">>, <<"COMMA", "WHITESPACE">>, <<"COMMA", "COMMENT", "WHITESPACE">> }

RECURSIVE ClauseRuns(_)
ClauseRuns(n) ==
    IF n = 1 THEN { <<"USE_TREE">> }
    ELSE { r \o sep \o <<"USE_TREE">> : r \in ClauseRuns(n - 1), sep \in ClauseSeparators }

UseTreeLists ==
    { Node(10, "USE_TREE_LIST",
           WithIds(<<"L_CURLY">> \o lead \o run \o trail \o <<"R_CURLY">>, 0)) :
        <<lead, run, trail>> \in
            {<<>>, <<"WHITESPACE">>}
            \X (UNION {ClauseRuns(n) : n \in 1..MaxTrees})
            \X {<<>>, <<"WHITESPACE">>, <<"COMMA">>, <<"COMMA", "WHITESPACE">>} }

InitTree ==
    /\ root \in UseTreeLists
    /\ changes = <<>>
    /\ calls = <<>>
    /\ pc = "idle"
    /\ edit = root
    /\ recording = FALSE
    /\ mappings = <<>>
    /\ last = NoCall
    /\ nextId = 1

NextTree == UseTreeRemove \/ Finish

SpecTree == InitTree /\ [][NextTree]_vars

\* --------------------------------------------- UseTree::remove: claims
OneClauseRemoved == root.kind = "USE_TREE_LIST" /\ Len(calls) = 1
Clause == calls[1]
ClauseIdx == IndexOfId(root.kids, Clause)
ClausesAfter == {j \in (ClauseIdx+1)..Len(root.kids) : root.kids[j].kind = "USE_TREE"}
ClausesBefore == {j \in 1..(ClauseIdx-1) : root.kids[j].kind = "USE_TREE"}
NextClauseIdx == CHOOSE j \in ClausesAfter : \A k \in ClausesAfter : j <= k
PrevClauseIdx == CHOOSE j \in ClausesBefore : \A k \in ClausesBefore : j >= k
DeleteTargets == {changes[k].target : k \in 1..Len(changes)}
IdsBetween(a, b) == {root.kids[j].id : j \in (a+1)..(b-1)}

\* C7: removing a clause of a grouped import deletes the elements strictly
\* between it and its next neighbouring clause when there is one (and nothing
\* before the clause); otherwise those between it and its previous
\* neighbour; with no neighbour no separator; and the clause itself exactly
\* once.  Removing `b` from `{a, b, c}` leaves `{a, c}`.
C7_NextFirstThenPrev ==
    (OneClauseRemoved /\ pc \in {"staged", "applied"}) =>
        /\ \A k \in 1..Len(changes) : changes[k].op = "delete"
        /\ Cardinality(DeleteTargets) = Len(changes)
        /\ Cardinality({k \in 1..Len(changes) : changes[k].target = Clause}) = 1
        /\ ClausesAfter # {} =>
              DeleteTargets = IdsBetween(ClauseIdx, NextClauseIdx) \cup {Clause}
        /\ (ClausesAfter = {} /\ ClausesBefore # {}) =>
              DeleteTargets = IdsBetween(PrevClauseIdx, ClauseIdx) \cup {Clause}
        /\ (ClausesAfter = {} /\ ClausesBefore = {}) => DeleteTargets = {Clause}
        /\ pc = "applied" =>
              /\ edit.kids = SelectSeq(root.kids, LAMBDA e : e.id \notin DeleteTargets)
              /\ (/\ Kinds(root.kids) = <<"L_CURLY", "USE_TREE", "COMMA", "WHITESPACE",
                                          "USE_TREE", "COMMA", "WHITESPACE", "USE_TREE",
                                          "R_CURLY">>
                  /\ ClauseIdx = 5)
                    => edit.kids = << root.kids[1], root.kids[2], root.kids[3],
                                      root.kids[4], root.kids[8], root.kids[9] >>

C7_Witness ==
    /\ OneClauseRemoved
    /\ pc = "applied"
    /\ ClausesAfter # {}
    /\ ClausesBefore # {}
    /\ Len(changes) = 3
    /\ Len(edit.kids) = Len(root.kids) - 3

\* ===================================================== SyntaxFactory
\* the subtrees callers hand to the constructors
NameNode(n) == Node(n, "NAME", <<>>)
ExprNode(n) == Node(10 + n, "LITERAL", <<>>)
StmtNode(n) == Node(20 + n, "EXPR_STMT", <<>>)
ArgNode(n) == Node(30 + n, "TYPE_ARG", <<>>)
TokenTreeNode(n) == Node(40 + n, "TOKEN_TREE", <<>>)
BoundsNode == Node(51, "TYPE_BOUND_LIST", <<>>)
TypeNode == Node(52, "PATH_TYPE", <<>>)
PatNode == Node(53, "WILDCARD_PAT", <<>>)
PathNode == Node(54, "PATH", <<>>)

Names == {NameNode(n) : n \in 1..MaxInputs}
Exprs == {ExprNode(n) : n \in 1..MaxInputs}
Opt(S) == S \cup {NoElem}
StmtNodes(k) == [i \in 1..k |-> StmtNode(i)]
ArgNodes(k) == [i \in 1..k |-> ArgNode(i)]
TokenTreeNodes(k) == [i \in 1..k |-> TokenTreeNode(i)]

ExprKinds == {"LITERAL", "BIN_EXPR", "PATH_EXPR", "REF_EXPR", "BLOCK_EXPR"}
PatKinds == {"WILDCARD_PAT", "IDENT_PAT"}
TypeKinds == {"PATH_TYPE"}
StmtKinds == {"EXPR_STMT", "LET_STMT"}

Supplied(nodes) == SelectSeq(nodes, LAMBDA e : e # NoElem)

\* make::X(..).clone_for_update(): a freshly built node numbered n whose
\* children are fresh copies of the supplied inputs, in grammar order
make(kind, children, n) ==
    Node(0 - n, kind,
         [k \in 1..Len(Supplied(children)) |->
             [Supplied(children)[k] EXCEPT !.id = 0 - (n + k)]])

\* accessors of the built node
child(ast, kinds) == ElemAt(ast.kids, FirstOfKind(ast.kids, kinds))
nth_child(ast, kinds, n) == ElemAt(SelectSeq(ast.kids, LAMBDA e : e.kind \in kinds), n)
children(ast, kinds) == SelectSeq(ast.kids, LAMBDA e : e.kind \in kinds)

\* SyntaxMappingBuilder::map_node / map_children
map_node(input, output) == << [input |-> input.id, output |-> output.id] >>
map_children(inputs, outputs) ==
    [k \in 1..(IF Len(inputs) < Len(outputs) THEN Len(inputs) ELSE Len(outputs)) |->
        [input |-> inputs[k].id, output |-> outputs[k].id]]

Slot(name, node) == [slot |-> name, node |-> node]

\* one constructor call: the fragment is built, and with a mapping store
\* (if let Some(mut mapping) = self.mappings()) the pairs are recorded
Call(ctor, inputs, ast, pairs) ==
    /\ Len(calls) < MaxCalls
    /\ calls' = Append(calls, ctor)
    /\ last' = [ctor |-> ctor, inputs |-> inputs, out |-> ast,
                recorded |-> IF recording THEN pairs ELSE <<>>]
    /\ mappings' = IF recording THEN mappings \o pairs ELSE mappings
    /\ nextId' = nextId + 1 + Len(ast.kids) + (IF ast.kind = "BLOCK_EXPR"
                                               THEN Len(ast.kids[1].kids) ELSE 0)
    /\ UNCHANGED <<root, changes, pc, edit, recording>>

FactoryName == Call("name", <<>>, make("NAME", <<>>, nextId), <<>>)

FactoryTy == Call("ty", <<>>, make("PATH_TYPE", <<>>, nextId), <<>>)

FactoryWhitespace ==
    \E text \in {<<SP>>, <<NL>>} :
        Call("whitespace", <<>>, Whitespace(0 - nextId, text), <<>>)

FactoryToken ==
    \E kind \in {"COMMA", "L_ANGLE"} :
        Call("token", <<>>, make_token(0 - nextId, kind), <<>>)

type_param_pairs(name, bounds, ast) ==
    map_node(name, child(ast, {"NAME"}))
        \o (IF bounds # NoElem
            THEN map_node(bounds, child(ast, {"TYPE_BOUND_LIST"}))
            ELSE <<>>)

FactoryTypeParam ==
    \E name \in Names, bounds \in Opt({BoundsNode}) :
        LET ast == make("TYPE_PARAM", <<name, bounds>>, nextId)
        IN  Call("type_param", << Slot("name", name), Slot("bounds", bounds) >>,
                 ast, type_param_pairs(name, bounds, ast))

Mut_ident_pat_pairs(name, ast) == <<>>
ident_pat_pairs(name, ast) == map_node(name, child(ast, {"NAME"}))

FactoryIdentPat ==
    \E ref_ \in BOOLEAN, mut_ \in BOOLEAN, name \in Names :
        LET ast == make("IDENT_PAT", <<name>>, nextId)
        IN  Call("ident_pat", << Slot("name", name) >>, ast, ident_pat_pairs(name, ast))

Mut_expr_bin_pairs(lhs, rhs, ast) ==
    map_node(lhs, nth_child(ast, ExprKinds, 1))
        \o map_node(rhs, nth_child(ast, ExprKinds, 1))
expr_bin_pairs(lhs, rhs, ast) ==
    map_node(lhs, nth_child(ast, ExprKinds, 1))
        \o map_node(rhs, nth_child(ast, ExprKinds, 2))

FactoryExprBin ==
    \E lhs \in Exprs, rhs \in Exprs :
        LET ast == make("BIN_EXPR", <<lhs, rhs>>, nextId)
        IN  Call("expr_bin", << Slot("lhs", lhs), Slot("rhs", rhs) >>,
                 ast, expr_bin_pairs(lhs, rhs, ast))

expr_path_pairs(path, ast) == map_node(path, child(ast, {"PATH"}))

FactoryExprPath ==
    LET ast == make("PATH_EXPR", <<PathNode>>, nextId)
    IN  Call("expr_path", << Slot("path", PathNode) >>, ast,
             expr_path_pairs(PathNode, ast))

expr_ref_pairs(expr, ast) == map_node(expr, child(ast, ExprKinds))

FactoryExprRef ==
    \E expr \in Exprs, exclusive \in BOOLEAN :
        LET ast == make("REF_EXPR", <<expr>>, nextId)
        IN  Call("expr_ref", << Slot("expr", expr) >>, ast, expr_ref_pairs(expr, ast))

let_stmt_pairs(pattern, ty, initializer, ast) ==
    map_node(pattern, child(ast, PatKinds))
        \o (IF ty # NoElem THEN map_node(ty, child(ast, TypeKinds)) ELSE <<>>)
        \o (IF initializer # NoElem
            THEN map_node(initializer, child(ast, ExprKinds))
            ELSE <<>>)

FactoryLetStmt ==
    \E ty \in Opt({TypeNode}), initializer \in Opt(Exprs) :
        LET ast == make("LET_STMT", <<PatNode, ty, initializer>>, nextId)
        IN  Call("let_stmt",
                 << Slot("pattern", PatNode), Slot("ty", ty),
                    Slot("initializer", initializer) >>,
                 ast, let_stmt_pairs(PatNode, ty, initializer, ast))

\* the pairs are taken against the statement list inside the block
block_expr_pairs(stmts, tail_expr, stmt_list) ==
    map_children(stmts, children(stmt_list, StmtKinds))
        \o (IF tail_expr # NoElem /\ child(stmt_list, ExprKinds) # NoElem
            THEN map_node(tail_expr, child(stmt_list, ExprKinds))
            ELSE <<>>)

FactoryBlockExpr ==
    \E k \in 0..MaxInputs, tail_expr \in Opt({ExprNode(1)}) :
        LET stmts == StmtNodes(k)
            stmt_list == make("STMT_LIST", stmts \o <<tail_expr>>, nextId + 1)
            ast == Node(0 - nextId, "BLOCK_EXPR", <<stmt_list>>)
        IN  Call("block_expr",
                 [i \in 1..k |-> Slot("stmt", stmts[i])] \o << Slot("tail_expr", tail_expr) >>,
                 ast, block_expr_pairs(stmts, tail_expr, stmt_list))

turbofish_pairs(args, ast) == map_children(args, children(ast, {"TYPE_ARG"}))

FactoryTurbofish ==
    \E k \in 0..MaxInputs :
        LET args == ArgNodes(k)
            ast == make("GENERIC_ARG_LIST", args, nextId)
        IN  Call("turbofish_generic_arg_list", [i \in 1..k |-> Slot("arg", args[i])],
                 ast, turbofish_pairs(args, ast))

\* only the nodes among the contents are paired (filter_map(only_nodes))
token_tree_pairs(tt, ast) ==
    map_children(SelectSeq(tt, LAMBDA e : e.kind = "TOKEN_TREE"),
                 children(ast, {"TOKEN_TREE"}))

FactoryTokenTree ==
    \E k \in 0..MaxInputs, lead \in {<<>>, << Token(60, "IDENT") >>} :
        LET tt == lead \o TokenTreeNodes(k)
            ast == make("TOKEN_TREE", tt, nextId)
        IN  Call("token_tree", [i \in 1..Len(tt) |-> Slot("tt", tt[i])],
                 ast, token_tree_pairs(tt, ast))

InitFactory ==
    /\ root = NoElem
    /\ changes = <<>>
    /\ calls = <<>>
    /\ pc = "idle"
    /\ edit = NoElem
    /\ recording \in BOOLEAN
    /\ mappings = <<>>
    /\ last = NoCall
    /\ nextId = 1

NextFactory ==
    \/ FactoryName
    \/ FactoryTy
    \/ FactoryWhitespace
    \/ FactoryToken
    \/ FactoryTypeParam
    \/ FactoryIdentPat
    \/ FactoryExprBin
    \/ FactoryExprPath
    \/ FactoryExprRef
    \/ FactoryLetStmt
    \/ FactoryBlockExpr
    \/ FactoryTurbofish
    \/ FactoryTokenTree

SpecFactory == InitFactory /\ [][NextFactory]_vars

\* ------------------------------------------------ SyntaxFactory: claims
FieldConstructors ==
    {"type_param", "ident_pat", "expr_bin", "expr_path", "expr_ref", "let_stmt"}
RequiredSlots == {"name", "lhs", "rhs", "path", "expr", "pattern"}
SuppliedInputs == SelectSeq(last.inputs, LAMBDA x : x.node # NoElem)

\* the built fragment holds a fresh copy of each supplied input, in order
FragmentOfInputs ==
    /\ last.out.id < 0
    /\ Len(last.out.kids) = Len(SuppliedInputs)
    /\ \A k \in 1..Len(SuppliedInputs) :
          /\ last.out.kids[k].kind = SuppliedInputs[k].node.kind
          /\ last.out.kids[k].id < 0
          /\ last.out.kids[k].id # last.out.id
          /\ \A j \in 1..Len(SuppliedInputs) :
                j # k => last.out.kids[j].id # last.out.kids[k].id

\* C8: with a recording context every required input of a constructor call
\* is recorded in exactly one pair (with the output child standing in its
\* slot) and every optional input exactly when it was supplied; without a
\* recording context the same calls record nothing and build the same
\* fragment.
C8_MappingCompleteness ==
    /\ ~recording => (mappings = <<>> /\ last.recorded = <<>>)
    /\ last.ctor \in FieldConstructors =>
          /\ FragmentOfInputs
          /\ \A k \in 1..Len(last.inputs) :
                last.inputs[k].slot \in RequiredSlots => last.inputs[k].node # NoElem
          /\ recording =>
                /\ Len(last.recorded) = Len(SuppliedInputs)
                /\ \A k \in 1..Len(SuppliedInputs) :
                      Cardinality({j \in 1..Len(last.recorded) :
                          last.recorded[j] =
                              [input |-> SuppliedInputs[k].node.id,
                               output |-> last.out.kids[k].id]}) = 1
                /\ Len(mappings) >= Len(last.recorded)
                /\ SubSeq(mappings, Len(mappings) - Len(last.recorded) + 1, Len(mappings))
                      = last.recorded

C8_Witness ==
    /\ recording
    /\ last.ctor = "let_stmt"
    /\ Len(SuppliedInputs) = 2
    /\ Len(last.recorded) = 2
    /\ Len(calls) = 2

\* C9 (as amended): with a recording context ident_pat registers exactly one
\* pair, from the supplied name to the name of the built pattern; name and
\* ty, which are built from text and take no subtree, register none.
C9_SingleFieldPairs ==
    recording =>
        /\ last.ctor = "ident_pat" =>
              last.recorded = << [input |-> last.inputs[1].node.id,
                                  output |-> last.out.kids[1].id] >>
        /\ last.ctor \in {"name", "ty"} => last.recorded = <<>>

C9_Witness ==
    /\ recording
    /\ last.ctor = "ident_pat"
    /\ Len(last.recorded) = 1
    /\ Len(mappings) = 1

\* C9 as stated: with a recording context each of name, ident_pat and ty
\* registers exactly one pair per call.
C9_Original ==
    (recording /\ last.ctor \in {"name", "ident_pat", "ty"}) =>
        Len(last.recorded) = 1

====
